---------------------------- MODULE Spec2Model ----------------------------
(***************************************************************************)
(* Finger / column bookkeeping of the row-based layout templates of        *)
(* abs_templates_ec: AnalogBase (analog_core.py), LaygoBase and            *)
(* LaygoIntvSet (laygo/core.py) and DigitalBase (digital/core.py).         *)
(*                                                                         *)
(* The geometry handed to the BAG framework (coordinates, tracks, wires)   *)
(* is not modelled; what is modelled is the state the templates keep       *)
(* themselves: which attributes are still None, the used finger / column   *)
(* intervals of every row, the instances added to the layout, and the      *)
(* exception (if any) each call ends with.                                 *)
(*                                                                         *)
(* bag.util.interval.IntervalSet is a library class: a sorted list of      *)
(* disjoint half-open integer intervals.  Its operations are modelled by   *)
(* their library contract, on non-empty intervals only.                    *)
(***************************************************************************)
EXTENDS Integers, Sequences, FiniteSets, TLC

\* ---------------------------------------------------------------- bounds
\* largest fg_tot handed to draw_base
MaxFg == 3
\* the numbers of nch rows and of pch rows handed to draw_base: every row has
\* interval sets of its own, so one row of each type shows what any row does
RowCounts == 0..1
\* draw_mos_conn / draw_mos_decap are explored while fewer than two calls
\* have marked an interval: a call is judged against what one earlier call
\* left, and two intervals cut a row into every kind of gap
Budget == 0..1
\* the row indices handed to draw_mos_conn / draw_mos_decap: the one row of a
\* type (0) and one past it (1)
RowIdx == 0..1

\* largest number of columns handed to set_row_types / set_laygo_size;
\* primitives may reach one column further
MaxCol == 3

\* numbers of rows handed to set_row_types and DigitalBase.initialize
LRowCounts == 1..2

\* row indices handed to add_laygo_primitive
LRowIdx == 0..2

\* add_laygo_primitive calls that mark an interval are counted within
LBudget == 0..1

\* widths (in columns) of a primitive master, copies nx and pitches spx
Widths == 1..2
Copies == 1..2
Pitches == 1..2

\* edge information objects of a primitive (flip swaps them)
EndInfos == {"pl", "pr"}

\* largest Y coordinate (in resolution units) handed to _place_helper's
\* step 3 for the top of the current block and of its last track
MaxY == 6

\* mos_pitch, tot_pitch / mos_pitch, and block heights in mos_pitch
MosPitches == 1..2
PitchRatios == 1..3
Heights == 1..2

\* bot_ext_w handed to _place_helper
BotExtWs == 0..2

\* lists get_valid_extension_widths returns: ascending, non-empty; every
\* width from the last one on is valid
ExtWLists == { << 0 >>, << 1, 3 >>, << 0, 2, 5 >>, << 2, 4, 7 >> }

\* ------------------------------------------------------- Python's None
None == << >>
Some(x) == << x >>
Val(o) == o[1]

\* ------------------------------------------- bag.util.interval.IntervalSet
\* two half-open intervals share a point
Overlaps(a, b) == a[1] < b[2] /\ b[1] < a[2]

\* IntervalSet.has_overlap(intv)
HasOverlap(S, intv) == \E i \in 1..Len(S) : Overlaps(S[i], intv)

\* the sorted insertion IntervalSet.add performs once no overlap was found
IntvInsert(S, intv) ==
    LET k == Cardinality({i \in 1..Len(S) : S[i][1] < intv[1]})
    IN  SubSeq(S, 1, k) \o << intv >> \o SubSeq(S, k + 1, Len(S))

\* IntervalSet.add(intv): the returned flag and the set afterwards
IntvAdd(S, intv) ==
    IF HasOverlap(S, intv)
    THEN [ok |-> FALSE, set |-> S]
    ELSE [ok |-> TRUE, set |-> IntvInsert(S, intv)]

\* IntervalSet.get_complement(total_intv) raises ValueError when an interval
\* of the set is not inside the universal interval
ComplementRaises(S, total) ==
    Len(S) > 0 /\ (S[1][1] < total[1] \/ total[2] < S[Len(S)][2])

\* IntervalSet.get_complement(total_intv): the gaps, left to right
GetComplement(S, total) ==
    LET gap(i) == << IF i = 0 THEN total[1] ELSE S[i][2],
                     IF i = Len(S) THEN total[2] ELSE S[i + 1][1] >>
        all == [i \in 1..(Len(S) + 1) |-> gap(i - 1)]
    IN  SelectSeq(all, LAMBDA g : g[1] < g[2])

\* what is left of one interval after removing intv from it
Pieces(a, intv) ==
    (IF a[1] < intv[1]
     THEN << << a[1], IF a[2] < intv[1] THEN a[2] ELSE intv[1] >> >>
     ELSE << >>)
    \o
    (IF intv[2] < a[2]
     THEN << << IF a[1] > intv[2] THEN a[1] ELSE intv[2], a[2] >> >>
     ELSE << >>)

RECURSIVE Subtract(_, _)
\* IntervalSet.subtract(intv)
Subtract(S, intv) ==
    IF S = << >> THEN << >>
    ELSE Pieces(Head(S), intv) \o Subtract(Tail(S), intv)

RECURSIVE SubtractAll(_, _)
\* "for intv in cap_intv_set: temp_intv.subtract(intv)"
SubtractAll(S, C) ==
    IF C = << >> THEN S
    ELSE SubtractAll(Subtract(S, Head(C)), Tail(C))

\* the fingers (columns) an interval set covers
Fingers(S) == UNION { S[i][1]..(S[i][2] - 1) : i \in 1..Len(S) }

\* ------------------------------------------------------------ AnalogBase
VARIABLES
    ab_called,      \* draw_base has been entered
    ab_placed,      \* _place has drawn the rows (_sd_yc_list is filled)
    fg_tot,         \* _fg_tot
    n_intvs,        \* _n_intvs: per nch row, the used finger intervals
    p_intvs,        \* _p_intvs
    capn_intvs,     \* _capn_intvs: per nch row, the decap finger intervals
    capp_intvs,     \* _capp_intvs
    ptap_list,      \* _ptap_list: the ptap substrate instances
    ntap_list,      \* _ntap_list
    insts,          \* connection instances add_instance has put in the layout
    a_calls,        \* number of draw_mos_conn / draw_mos_decap calls that marked an interval
    a_op,           \* the name of the last AnalogBase call
    a_hit,          \* whether the fingers that call asked for were, when it
                    \* was made, fingers of a connection instance of its row
    a_ret           \* how it ended: "ok" or the exception raised

avars == << ab_called, ab_placed, fg_tot, n_intvs, p_intvs, capn_intvs,
            capp_intvs, ptap_list, ntap_list, insts, a_calls, a_op, a_hit, a_ret >>

MosTypes == {"nch", "pch"}

\* the value AnalogBase.__init__ gives every list attribute
InitListEmpty == Some(<< >>)
InitList == None

\* AnalogBase.__init__
InitAnalog ==
    /\ ab_called = FALSE
    /\ ab_placed = FALSE
    /\ fg_tot = InitList
    /\ n_intvs = InitList
    /\ p_intvs = InitList
    /\ capn_intvs = InitList
    /\ capp_intvs = InitList
    /\ ptap_list = InitList
    /\ ntap_list = InitList
    /\ insts = {}
    /\ a_calls = 0
    /\ a_op = "init"
    /\ a_hit = FALSE
    /\ a_ret = "ok"

\* _make_masters: the masters of one transistor type, bottom to top; a
\* substrate is made only for a positive width
MakeMasters(mos_type, num_tran, bot_sub, top_sub) ==
    LET sub_type == IF mos_type = "nch" THEN "ptap" ELSE "ntap"
    IN  IF num_tran = 0 THEN << >>
        ELSE (IF bot_sub THEN << sub_type >> ELSE << >>)
             \o [i \in 1..num_tran |-> mos_type]
             \o (IF top_sub THEN << sub_type >> ELSE << >>)

\* draw_base: the master list handed to _place.  ptap_w / ntap_w say whether
\* the substrate width is positive; pgr_w and ngr_w take their defaults
\* (ntap_w and ptap_w) and are 0 without a guard ring.
MasterList(numn, nump, ptap_w, ntap_w, guard_ring) ==
    LET ngr_w == guard_ring /\ ptap_w
        pgr_w == guard_ring /\ ntap_w
    IN  MakeMasters("nch", numn, ptap_w, ngr_w)
        \o MakeMasters("pch", nump, pgr_w, ntap_w)

\* _place reads params['sub_type'] of the first and of the last master to
\* make the end rows: a KeyError unless both are substrates
PlaceOk(ml) ==
    /\ ml[1] \in {"ptap", "ntap"}
    /\ ml[Len(ml)] \in {"ptap", "ntap"}

\* AnalogBase.draw_base
DrawBase(numn, nump, fg, ptap_w, ntap_w, guard_ring) ==
    /\ ~ab_called
    /\ ab_called' = TRUE
    /\ a_op' = "draw_base"
    /\ a_hit' = FALSE
    /\ UNCHANGED << insts, a_calls >>
    /\ IF numn = 0 /\ nump = 0
       THEN /\ a_ret' = "ValueError"
            /\ UNCHANGED << ab_placed, fg_tot, n_intvs, p_intvs, capn_intvs,
                            capp_intvs, ptap_list, ntap_list >>
       ELSE LET ml == MasterList(numn, nump, ptap_w, ntap_w, guard_ring)
                placed == PlaceOk(ml)
            IN  /\ fg_tot' = Some(fg)
                /\ n_intvs' = Some([i \in 1..numn |-> << >>])
                /\ p_intvs' = Some([i \in 1..nump |-> << >>])
                /\ capn_intvs' = Some([i \in 1..numn |-> << >>])
                /\ capp_intvs' = Some([i \in 1..nump |-> << >>])
                /\ ptap_list' = Some(IF placed
                                     THEN SelectSeq(ml, LAMBDA m : m = "ptap")
                                     ELSE << >>)
                /\ ntap_list' = Some(IF placed
                                     THEN SelectSeq(ml, LAMBDA m : m = "ntap")
                                     ELSE << >>)
                /\ ab_placed' = placed
                /\ a_ret' = IF placed THEN "ok" ELSE "KeyError"

\* the row's interval set replaced in a list of interval sets
SetRow(o, r, S) == Some([Val(o) EXCEPT ![r + 1] = S])

\* one connection instance of the layout
Inst(k, t, r, intv) == [k |-> k, t |-> t, r |-> r, lo |-> intv[1], hi |-> intv[2]]

\* draw_mos_conn: "cap_intv_set.has_overlap(intv) or not intv_set.add(intv)"
ConnRejectedNoCap(S, C, intv) == ~IntvAdd(S, intv).ok
ConnRejected(S, C, intv) == HasOverlap(C, intv) \/ ~IntvAdd(S, intv).ok

\* draw_mos_decap: the same test, on the decap set unless the gate is exported
DecapRejected(S, C, intv, export_gate) ==
    IF ~export_gate
    THEN HasOverlap(S, intv) \/ ~IntvAdd(C, intv).ok
    ELSE HasOverlap(C, intv) \/ ~IntvAdd(S, intv).ok

\* what draw_mos_conn and draw_mos_decap share (fill_dummy "should be called
\* last": no connection is drawn once it has returned): the row's sets are looked
\* up (TypeError on None, IndexError past the last row), the interval is
\* marked or the call raises ValueError, then the instance is placed at
\* _sd_yc_list[ridx] (IndexError when _place has drawn no row)
Connect(kind, t, r, intv, export_gate) ==
    LET used == IF t = "pch" THEN p_intvs ELSE n_intvs
        caps == IF t = "pch" THEN capp_intvs ELSE capn_intvs
        toCap == kind = "draw_mos_decap" /\ ~export_gate
        rejected(S, C) == IF kind = "draw_mos_conn"
                          THEN ConnRejected(S, C, intv)
                          ELSE DecapRejected(S, C, intv, export_gate)
    IN  /\ a_calls \in Budget
        /\ ~(a_op = "fill_dummy" /\ a_ret = "ok")
        /\ a_op' = kind
        /\ a_hit' = \E i \in insts : /\ i.k \in {"draw_mos_conn", "draw_mos_decap"}
                                      /\ i.t = t /\ i.r = r
                                      /\ Overlaps(<< i.lo, i.hi >>, intv)
        /\ UNCHANGED << ab_called, ab_placed, fg_tot, ptap_list, ntap_list >>
        /\ IF used = None
           THEN /\ a_ret' = "TypeError"
                /\ UNCHANGED << n_intvs, p_intvs, capn_intvs, capp_intvs, insts, a_calls >>
           ELSE IF r >= Len(Val(used))
           THEN /\ a_ret' = "IndexError"
                /\ UNCHANGED << n_intvs, p_intvs, capn_intvs, capp_intvs, insts, a_calls >>
           ELSE IF rejected(Val(used)[r + 1], Val(caps)[r + 1])
           THEN /\ a_ret' = "ValueError"
                /\ UNCHANGED << n_intvs, p_intvs, capn_intvs, capp_intvs, insts, a_calls >>
           ELSE LET S == Val(used)[r + 1]
                    C == Val(caps)[r + 1]
                    used2 == IF toCap THEN used ELSE SetRow(used, r, IntvAdd(S, intv).set)
                    caps2 == IF toCap THEN SetRow(caps, r, IntvAdd(C, intv).set) ELSE caps
                IN  /\ a_calls' = a_calls + 1
                    /\ n_intvs' = IF t = "pch" THEN n_intvs ELSE used2
                    /\ p_intvs' = IF t = "pch" THEN used2 ELSE p_intvs
                    /\ capn_intvs' = IF t = "pch" THEN capn_intvs ELSE caps2
                    /\ capp_intvs' = IF t = "pch" THEN caps2 ELSE capp_intvs
                    /\ IF ab_placed
                       THEN /\ insts' = insts \cup {Inst(kind, t, r, intv)}
                            /\ a_ret' = "ok"
                       ELSE /\ insts' = insts
                            /\ a_ret' = "IndexError"

\* AnalogBase.draw_mos_conn
DrawMosConn(t, r, col_idx, fg) ==
    LET intv == << col_idx, col_idx + fg >>
    IN  Connect("draw_mos_conn", t, r, intv, TRUE)

\* AnalogBase.draw_mos_decap
DrawMosDecap(t, r, col_idx, fg, export_gate) ==
    LET intv == << col_idx, col_idx + fg >>
    IN  Connect("draw_mos_decap", t, r, intv, export_gate)

\* AnalogBase.connect_to_substrate: the exception it ends with, or "ok".
\* len() and subscripting of an attribute that is still None raise
\* TypeError, subscripting an empty list raises IndexError.
ConnectToSubstrateRet(sub_type, inner_arg, both) ==
    LET inner == inner_arg \/ both
        lst == IF sub_type = "ptap" THEN ptap_list ELSE ntap_list
    IN  IF sub_type \notin {"ptap", "ntap"} THEN "ValueError"
        ELSE IF lst = None THEN "TypeError"
        ELSE IF inner /\ Len(Val(lst)) # 2 THEN "ValueError"
        ELSE IF (~inner \/ both) /\ Len(Val(lst)) = 0 THEN "IndexError"
        ELSE "ok"

\* AnalogBase.connect_to_substrate (the exported track ids it records are
\* wires of the framework and are left out)
ConnectToSubstrate(sub_type, inner, both) ==
    /\ a_op' = "connect_to_substrate"
    /\ a_hit' = FALSE
    /\ a_ret' = ConnectToSubstrateRet(sub_type, inner, both)
    /\ UNCHANGED << ab_called, ab_placed, fg_tot, n_intvs, p_intvs, capn_intvs,
                    capp_intvs, ptap_list, ntap_list, insts, a_calls >>

\* _fill_dummy_helper, step 2: the dummy transistor intervals of one row are
\* the complement of the used intervals minus the decap intervals
DumTranIntv(S, C, total) == SubtractAll(GetComplement(S, total), C)

\* _fill_dummy_helper, step 6: one AnalogMOSDummy instance per dummy
\* transistor interval of every row of the type
DummyInsts(t, used, caps, total) ==
    { Inst("dummy", t, r - 1, DumTranIntv(used[r], caps[r], total)[j]) :
        << r, j >> \in { << r, j >> \in (1..Len(used)) \X (1..(MaxFg + 1)) :
                           j <= Len(DumTranIntv(used[r], caps[r], total)) } }

\* fill_dummy: "total_intv = (0, self._fg_tot)"
TotalIntvShort == << 0, Val(fg_tot) - 1 >>
TotalIntv == << 0, Val(fg_tot) >>

\* fill_dummy: iterating _p_intvs / _n_intvs raises TypeError while they are
\* None; get_complement raises ValueError for a row with a connection
\* outside [0, fg_tot)
FillDummyRet ==
    IF p_intvs = None \/ n_intvs = None THEN "TypeError"
    ELSE IF \/ \E r \in 1..Len(Val(p_intvs)) :
                  ComplementRaises(Val(p_intvs)[r], TotalIntv)
            \/ \E r \in 1..Len(Val(n_intvs)) :
                  ComplementRaises(Val(n_intvs)[r], TotalIntv)
         THEN "ValueError"
    ELSE "ok"

\* AnalogBase.fill_dummy: nch dummies are drawn when a ptap substrate
\* exists, pch dummies when an ntap substrate exists
FillDummy ==
    /\ a_op' = "fill_dummy"
    /\ a_hit' = FALSE
    /\ a_ret' = FillDummyRet
    /\ UNCHANGED << ab_called, ab_placed, fg_tot, n_intvs, p_intvs, capn_intvs,
                    capp_intvs, ptap_list, ntap_list, a_calls >>
    /\ IF FillDummyRet # "ok"
       THEN insts' = insts
       ELSE LET total == TotalIntv
                ndum == IF Len(Val(ptap_list)) > 0
                        THEN DummyInsts("nch", Val(n_intvs), Val(capn_intvs), total)
                        ELSE {}
                pdum == IF Len(Val(ntap_list)) > 0
                        THEN DummyInsts("pch", Val(p_intvs), Val(capp_intvs), total)
                        ELSE {}
            IN  insts' = insts \cup ndum \cup pdum

\* ---------------------------------------------------------- LaygoIntvSet
\* A LaygoIntvSet: _intv (the used column intervals) and _end_flags (a
\* dictionary column -> edge information, here a set of pairs).
EmptyIntvSet == [intv |-> << >>, flags |-> {}]

\* LaygoIntvSet.add's update of _end_flags for one column: the entry is
\* deleted if the column has one, set otherwise
Toggle(F, c, e) ==
    IF \E p \in F : p[1] = c THEN { p \in F : p[1] # c } ELSE F \cup { << c, e >> }

\* LaygoIntvSet.add: the flag returned and the set afterwards
LaygoAddAlwaysTrue(s, intv, endl, endr) ==
    [ok |-> TRUE, set |-> s]
LaygoAdd(s, intv, endl, endr) ==
    LET ans == IntvAdd(s.intv, intv)
    IN  IF ans.ok
        THEN [ok |-> TRUE,
              set |-> [intv |-> ans.set,
                       flags |-> Toggle(Toggle(s.flags, intv[1], endl), intv[2], endr)]]
        ELSE [ok |-> FALSE, set |-> s]

\* LaygoIntvSet.get_end
LaygoGetEnd(s) == IF s.intv = << >> THEN 0 ELSE s.intv[Len(s.intv)][2]

\* One LaygoIntvSet on its own, and the last add made to it.
VARIABLES
    iv_set,         \* the LaygoIntvSet
    iv_last         \* None, or the last add: its interval, the set before, the flag returned

ivars == << iv_set, iv_last >>

InitIntv == iv_set = EmptyIntvSet /\ iv_last = None

\* a call of LaygoIntvSet.add
IvAdd(intv, endl, endr) ==
    LET a == LaygoAdd(iv_set, intv, endl, endr)
    IN  /\ iv_set' = a.set
        /\ iv_last' = Some([intv |-> intv, pre |-> iv_set, ok |-> a.ok])

\* ------------------------------------------------------------- LaygoBase
VARIABLES
    lb_called,          \* set_row_types has been entered
    num_rows,           \* _num_rows
    used_list,          \* _used_list: None, or one LaygoIntvSet per row
    rows_placed,        \* _row_infos, _ext_params and _row_y are set
    draw_boundaries,    \* _laygo_info.draw_boundaries
    info_num_col,       \* _laygo_info.num_col
    laygo_size,         \* _laygo_size: None or (num_col, num_rows)
    bound_box,          \* the bounding box is set
    ext_edge_infos,     \* _ext_edge_infos: None, or the number of extension rows drawn
    linsts,             \* primitive and space instances add_instance has put in the layout
    finalized,          \* the template is finalized
    row_info,           \* None, or the keys of the dictionary get_digital_row_info returned
    l_calls,            \* number of add_laygo_primitive calls that marked an interval
    l_op,               \* the name of the last LaygoBase call
    l_hit,              \* whether a column interval that call asked for overlapped,
                        \* when it was made, a used interval of its row
    l_marked,           \* whether every column interval that call asked for is
                        \* a used interval of its row after it
    l_ret               \* how it ended: "ok" or the exception raised

lvars == << lb_called, num_rows, used_list, rows_placed, draw_boundaries,
            info_num_col, laygo_size, bound_box, ext_edge_infos, linsts,
            finalized, row_info, l_calls, l_op, l_hit, l_marked, l_ret >>

\* LaygoBase.__init__ (LaygoBaseInfo.__init__: draw_boundaries=False)
InitLaygo ==
    /\ lb_called = FALSE
    /\ num_rows = 0
    /\ used_list = None
    /\ rows_placed = FALSE
    /\ draw_boundaries = FALSE
    /\ info_num_col = None
    /\ laygo_size = None
    /\ bound_box = FALSE
    /\ ext_edge_infos = None
    /\ linsts = {}
    /\ finalized = FALSE
    /\ row_info = None
    /\ l_calls = 0
    /\ l_op = "init"
    /\ l_hit = FALSE
    /\ l_marked = FALSE
    /\ l_ret = "ok"

\* what every LaygoBase call but add_laygo_primitive leaves of the history
LCall(op) ==
    /\ l_op' = op
    /\ l_hit' = FALSE
    /\ l_marked' = FALSE
    /\ UNCHANGED l_calls

\* set_laygo_size once _laygo_size is known to be None and the number of
\* columns is computed: the size is assigned before the row coordinates
\* are read
SizeAssign(nc, nrows, placed) ==
    [info_num_col |-> Some(nc),
     laygo_size |-> Some(<< nc, nrows >>),
     bound_box |-> placed,
     ret |-> IF placed THEN "ok" ELSE "TypeError"]

\* LaygoBase.set_row_types; end_sub: the bottom and top rows are substrates
SetRowTypes(n, db, num_col, end_sub) ==
    /\ ~lb_called /\ ~finalized
    /\ lb_called' = TRUE
    /\ LCall("set_row_types")
    /\ UNCHANGED << ext_edge_infos, linsts, finalized, row_info >>
    /\ IF n < 2 \/ (db /\ num_col = None)
       THEN /\ l_ret' = "ValueError"
            /\ UNCHANGED << num_rows, used_list, rows_placed, draw_boundaries,
                            info_num_col, laygo_size, bound_box >>
       ELSE /\ draw_boundaries' = db
            /\ num_rows' = n
            /\ used_list' = Some([i \in 1..n |-> EmptyIntvSet])
            /\ IF db /\ ~end_sub
               THEN /\ l_ret' = "ValueError"
                    /\ info_num_col' = num_col
                    /\ UNCHANGED << rows_placed, laygo_size, bound_box >>
               ELSE /\ rows_placed' = TRUE
                    /\ IF num_col # None /\ laygo_size = None
                       THEN LET a == SizeAssign(Val(num_col), n, TRUE)
                            IN  /\ info_num_col' = a.info_num_col
                                /\ laygo_size' = a.laygo_size
                                /\ bound_box' = a.bound_box
                                /\ l_ret' = a.ret
                       ELSE /\ info_num_col' = num_col
                            /\ l_ret' = "ok"
                            /\ UNCHANGED << laygo_size, bound_box >>

\* the largest get_end() of the rows
RECURSIVE MaxEnd(_)
MaxEnd(list) ==
    IF list = << >> THEN 0
    ELSE LET e == LaygoGetEnd(Head(list))
             m == MaxEnd(Tail(list))
         IN  IF e > m THEN e ELSE m

\* LaygoBase.set_laygo_size
SetLaygoSize(num_col) ==
    /\ ~finalized
    /\ LCall("set_laygo_size")
    /\ UNCHANGED << lb_called, num_rows, used_list, rows_placed, draw_boundaries,
                    ext_edge_infos, linsts, finalized, row_info >>
    /\ IF laygo_size # None
       THEN /\ l_ret' = "ok"
            /\ UNCHANGED << info_num_col, laygo_size, bound_box >>
       ELSE IF num_col = None /\ info_num_col = None /\ used_list = None
       THEN /\ l_ret' = "TypeError"
            /\ UNCHANGED << info_num_col, laygo_size, bound_box >>
       ELSE LET nc == IF num_col # None THEN Val(num_col)
                      ELSE IF info_num_col # None THEN Val(info_num_col)
                      ELSE MaxEnd(Val(used_list))
                a == SizeAssign(nc, num_rows, rows_placed)
            IN  /\ nc > 0
                /\ info_num_col' = a.info_num_col
                /\ laygo_size' = a.laygo_size
                /\ bound_box' = a.bound_box
                /\ l_ret' = a.ret

\* the column interval of copy inst_num of a primitive num_col columns wide
InstIntv(col_idx, num_col, spx, inst_num) ==
    << col_idx + spx * inst_num, col_idx + spx * inst_num + num_col >>

\* add_laygo_primitive's test of the flag LaygoIntvSet.add returned
AddRefusedNever(a) == FALSE
AddRefused(a) == ~a.ok

\* add_laygo_primitive's loop over the nx copies, from copy inst_num on:
\* the copies before the first one refused stay marked
RECURSIVE AddCopies(_, _, _, _, _, _)
AddCopies(s, col_idx, num_col, nx, spx, inst_num) ==
    IF inst_num >= nx THEN [ok |-> TRUE, set |-> s]
    ELSE LET a == LaygoAdd(s, InstIntv(col_idx, num_col, spx, inst_num), "pl", "pr")
         IN  IF AddRefused(a) THEN [ok |-> FALSE, set |-> s]
             ELSE AddCopies(a.set, col_idx, num_col, nx, spx, inst_num + 1)

LInst(k, r, intv) == [k |-> k, r |-> r, lo |-> intv[1], hi |-> intv[2]]

\* the intervals of an interval list, as a set
IntvsOf(S) == { S[i] : i \in 1..Len(S) }

\* LaygoBase.add_laygo_primitive with loc = (col_idx, row_idx) and a master
\* num_col columns wide
AddLaygoPrimitive(row_idx, col_idx, num_col, nx, spx) ==
    /\ ~finalized
    /\ l_calls \in LBudget
    /\ l_op' = "add_laygo_primitive"
    /\ UNCHANGED << lb_called, num_rows, rows_placed, draw_boundaries, info_num_col,
                    laygo_size, bound_box, ext_edge_infos, finalized, row_info >>
    /\ IF row_idx < 0 \/ row_idx >= num_rows
       THEN /\ l_ret' = "ValueError"
            /\ l_hit' = FALSE
            /\ l_marked' = FALSE
            /\ UNCHANGED << used_list, linsts, l_calls >>
       ELSE LET s == Val(used_list)[row_idx + 1]
                req == { InstIntv(col_idx, num_col, spx, i) : i \in 0..(nx - 1) }
                hit == \E i \in 0..(nx - 1), c \in 0..(num_col - 1) :
                          col_idx + spx * i + c \in Fingers(s.intv)
            IN  IF ~rows_placed
                THEN /\ l_ret' = "TypeError"
                     /\ l_hit' = hit
                     /\ l_marked' = FALSE
                     /\ UNCHANGED << used_list, linsts, l_calls >>
                ELSE LET a == AddCopies(s, col_idx, num_col, nx, spx, 0)
                     IN  /\ used_list' = SetRow(used_list, row_idx, a.set)
                         /\ l_hit' = hit
                         /\ l_marked' =
                              \A i \in 0..(nx - 1) :
                                  << col_idx + spx * i, col_idx + spx * i + num_col >>
                                      \in IntvsOf(a.set.intv)
                         /\ l_calls' = IF a.set = s THEN l_calls ELSE l_calls + 1
                         /\ IF a.ok
                            THEN /\ l_ret' = "ok"
                                 /\ linsts' = linsts \cup
                                        { LInst("prim", row_idx, intv) : intv \in req }
                            ELSE /\ l_ret' = "ValueError"
                                 /\ UNCHANGED linsts

\* add_laygo_space for every interval of a row's complement, in order
RECURSIVE AddSpaces(_, _)
AddSpaces(s, gaps) ==
    IF gaps = << >> THEN s
    ELSE AddSpaces(LaygoAdd(s, Head(gaps), "sl", "sr").set, Tail(gaps))

\* fill_space's loop over the rows, from row k on (1-based): the list of
\* rows and the space instances when the loop ends or raises
RECURSIVE FillRows(_, _, _, _, _)
FillRows(list, k, total, placed, drawn) ==
    IF k > Len(list) THEN [ret |-> "ok", list |-> list, insts |-> drawn]
    ELSE IF ComplementRaises(list[k].intv, total)
    THEN [ret |-> "ValueError", list |-> list, insts |-> drawn]
    ELSE LET gaps == GetComplement(list[k].intv, total)
         IN  IF gaps # << >> /\ ~placed
             THEN [ret |-> "TypeError", list |-> list, insts |-> drawn]
             ELSE FillRows([list EXCEPT ![k] = AddSpaces(list[k], gaps)],
                           k + 1, total, placed,
                           drawn \cup { LInst("space", k - 1, gaps[i]) : i \in 1..Len(gaps) })

\* fill_space's total_intv
LTotalIntvShort(size) == << 0, size[1] - 1 >>
LTotalIntv(size) == << 0, size[1] >>

\* fill_space's first test
SizeUnsetNever(size) == FALSE
SizeUnset(size) == size = None

\* LaygoBase.fill_space
FillSpace ==
    /\ ~finalized
    /\ LCall("fill_space")
    /\ UNCHANGED << lb_called, num_rows, rows_placed, draw_boundaries, info_num_col,
                    laygo_size, bound_box, finalized, row_info >>
    /\ IF SizeUnset(laygo_size)
       THEN /\ l_ret' = "ValueError"
            /\ UNCHANGED << used_list, linsts, ext_edge_infos >>
       ELSE IF used_list = None \/ laygo_size = None
       THEN /\ l_ret' = "TypeError"
            /\ UNCHANGED << used_list, linsts, ext_edge_infos >>
       ELSE LET f == FillRows(Val(used_list), 1, LTotalIntv(Val(laygo_size)),
                              rows_placed, {})
            IN  /\ used_list' = Some(f.list)
                /\ linsts' = linsts \cup f.insts
                /\ IF f.ret # "ok"
                   THEN /\ l_ret' = f.ret
                        /\ UNCHANGED ext_edge_infos
                   ELSE IF ~rows_placed /\ num_rows > 1
                   THEN /\ l_ret' = "TypeError"
                        /\ ext_edge_infos' = Some(0)
                   ELSE /\ l_ret' = "ok"
                        /\ ext_edge_infos' = Some(num_rows - 1)

\* the framework finalizes the template
Finalize ==
    /\ ~finalized
    /\ finalized' = TRUE
    /\ LCall("finalize")
    /\ l_ret' = "ok"
    /\ UNCHANGED << lb_called, num_rows, used_list, rows_placed, draw_boundaries,
                    info_num_col, laygo_size, bound_box, ext_edge_infos, linsts,
                    row_info >>

\* the keys of the dictionary get_digital_row_info builds
DigitalRowInfoKeys ==
    {"config", "top_layer", "guard_ring_nf", "row_orientations", "row_kwargs",
     "row_min_tracks", "row_infos", "ext_params", "row_y", "row_height",
     "bot_extw", "top_extw", "bot_sub_extw", "top_sub_extw", "bot_ext_info",
     "top_ext_info", "row_edge_infos", "ext_edge_infos"}

\* get_digital_row_info's second test
HasBoundariesNever(db) == FALSE
HasBoundaries(db) == db = TRUE

\* LaygoBase.get_digital_row_info; building the dictionary reads the
\* bounding box and the row coordinates
GetDigitalRowInfo ==
    /\ LCall("get_digital_row_info")
    /\ UNCHANGED << lb_called, num_rows, used_list, rows_placed, draw_boundaries,
                    info_num_col, laygo_size, bound_box, ext_edge_infos, linsts,
                    finalized >>
    /\ IF ~finalized \/ HasBoundaries(draw_boundaries)
       THEN /\ l_ret' = "ValueError"
            /\ UNCHANGED row_info
       ELSE IF ~bound_box
       THEN /\ l_ret' = "AttributeError"
            /\ UNCHANGED row_info
       ELSE /\ l_ret' = "ok"
            /\ row_info' = Some(DigitalRowInfoKeys)

\* ----------------------------------------------------------- DigitalBase
VARIABLES
    d_laygo_info,       \* _laygo_info is set (not None)
    d_num_rows,         \* _num_rows
    d_used_list,        \* _used_list: None, or one LaygoIntvSet per row
    dig_size,           \* _dig_size: None or (num_col, num_rows)
    d_ext_params,       \* _ext_params: None, or the number of extension rows
    d_ext_edge_infos,   \* _ext_edge_infos: None, or the number of extension rows drawn
    d_op,               \* the name of the last DigitalBase call
    d_ret               \* how it ended: "ok" or the exception raised

dvars == << d_laygo_info, d_num_rows, d_used_list, dig_size, d_ext_params,
            d_ext_edge_infos, d_op, d_ret >>

\* DigitalBase.__init__ 
InitDigital ==
    /\ d_laygo_info = FALSE
    /\ d_num_rows = 0
    /\ d_used_list = None
    /\ dig_size = None
    /\ d_ext_params = None
    /\ d_ext_edge_infos = None
    /\ d_op = "init"
    /\ d_ret = "ok"

\* the attributes and properties LaygoBaseInfo defines
LaygoBaseInfoAttrs ==
    {"grid", "guard_ring_nf", "top_layer", "end_mode", "draw_boundaries",
     "tech_cls", "conn_layer", "fg2d_s_short", "sub_columns", "sub_port_columns",
     "min_sub_space", "mos_pitch", "lch_unit", "lch", "col_width", "unit_num_col",
     "tot_height_pitch", "num_col", "edge_margins", "edge_widths", "tot_width"}

\* the keys of row_info initialize reads once _used_list is set, in order
LaterKeys(n, db) ==
    << "bot_extw", "bot_sub_extw" >>
    \o (IF db THEN << "row_types", "row_thresholds", "bot_ext_info" >> ELSE << >>)
    \o (IF db /\ n % 2 = 1
        THEN << "row_types", "row_thresholds", "top_extw", "top_sub_extw" >>
        ELSE << >>)
    \o (IF n > 1 THEN << "top_extw" >> ELSE << >>)

\* DigitalBase.initialize(row_info, num_rows, draw_boundaries, ...) with the
\* dictionary a LaygoBase's get_digital_row_info returned
Initialize(n, db) ==
    /\ row_info # None
    /\ ~d_laygo_info
    /\ d_op' = "initialize"
    /\ UNCHANGED << dig_size, d_ext_edge_infos >>
    /\ LET keys == Val(row_info)
       IN  IF "config" \notin keys
           THEN /\ d_ret' = "KeyError"
                /\ UNCHANGED << d_laygo_info, d_num_rows, d_used_list, d_ext_params >>
           ELSE /\ d_laygo_info' = TRUE
                /\ d_num_rows' = n
                /\ IF "row_height" \notin keys \/ "row_types" \notin keys
                   THEN /\ d_ret' = "KeyError"
                        /\ UNCHANGED << d_used_list, d_ext_params >>
                   ELSE /\ d_used_list' = Some([i \in 1..n |-> EmptyIntvSet])
                        /\ IF "unit_fg" \notin LaygoBaseInfoAttrs
                           THEN /\ d_ret' = "AttributeError"
                                /\ UNCHANGED d_ext_params
                           ELSE LET later == LaterKeys(n, db)
                                IN  IF \E i \in 1..Len(later) : later[i] \notin keys
                                    THEN /\ d_ret' = "KeyError"
                                         /\ d_ext_params' =
                                              IF \E i \in 1..2 : later[i] \notin keys
                                              THEN d_ext_params ELSE Some(0)
                                    ELSE /\ d_ret' = "ok"
                                         /\ d_ext_params' =
                                              Some((IF db THEN 2 ELSE 0) + n - 1)

\* DigitalBase.set_digital_size: the size is assigned before the
\* attributes of _laygo_info are read
SetDigitalSize(num_col) ==
    /\ d_op' = "set_digital_size"
    /\ UNCHANGED << d_laygo_info, d_num_rows, d_used_list, d_ext_params,
                    d_ext_edge_infos >>
    /\ IF dig_size # None
       THEN /\ d_ret' = "ok"
            /\ UNCHANGED dig_size
       ELSE IF num_col = None /\ d_used_list = None
       THEN /\ d_ret' = "TypeError"
            /\ UNCHANGED dig_size
       ELSE /\ dig_size' = Some(<< IF num_col = None THEN MaxEnd(Val(d_used_list))
                                   ELSE Val(num_col),
                                   d_num_rows >>)
            /\ d_ret' = IF ~d_laygo_info \/ "left_margin" \notin LaygoBaseInfoAttrs
                        THEN "AttributeError" ELSE "ok"

\* fill_space's first test
DigSizeUnset(size) == size = None

\* DigitalBase.fill_space
DigitalFillSpace ==
    /\ d_op' = "fill_space"
    /\ UNCHANGED << d_laygo_info, d_num_rows, d_used_list, dig_size, d_ext_params >>
    /\ IF DigSizeUnset(dig_size)
       THEN /\ d_ret' = "ValueError"
            /\ UNCHANGED d_ext_edge_infos
       ELSE IF ~d_laygo_info
       THEN /\ d_ret' = "AttributeError"
            /\ d_ext_edge_infos' = Some(0)
       ELSE IF d_ext_params = None
       THEN /\ d_ret' = "TypeError"
            /\ d_ext_edge_infos' = Some(0)
       ELSE /\ d_ret' = "ok"
            /\ d_ext_edge_infos' = d_ext_params

\* --------------------------------------------- AnalogBase._place_helper
\* -(-y // p) * p: y rounded up to a multiple of p
CeilTo(y, p) == -((-y) \div p) * p

\* the widths of a list, as a set
WidthsOf(list) == { list[i] : i \in 1..Len(list) }

\* "for tmp_ext_w in ext_w_list: if w < tmp_ext_w: w = tmp_ext_w; break"
NextWidth(w, list) ==
    IF \E i \in 1..Len(list) : w < list[i]
    THEN list[CHOOSE i \in 1..Len(list) :
                  w < list[i] /\ \A j \in 1..(i - 1) : ~(w < list[j])]
    ELSE w

\* the negation of "ext_w not in ext_w_list and ext_w < ext_w_list[-1]"
WidthSettledAlways(w, list) == TRUE
WidthSettled(w, list) == ~(w \notin WidthsOf(list) /\ w < list[Len(list)])

\* step 3A: the minimum extension width and y_next_min
MinExtW(first, bot_ext_w, list, y_next_min, y_top_cur, mos_pitch) ==
    LET w0 == IF first /\ bot_ext_w > list[1] THEN bot_ext_w ELSE list[1]
        test_ext_w == (y_next_min - y_top_cur) \div mos_pitch
        w1 == IF test_ext_w > w0 THEN test_ext_w ELSE w0
    IN  IF WidthSettled(w1, list) THEN w1 ELSE NextWidth(w1, list)

\* step 3B's while loop for the last block; iters counts its iterations
RECURSIVE LastBlockLoop(_, _, _, _, _, _, _, _)
LastBlockLoop(ext_w, y_next, iters, list, y_top_cur, next_height, mos_pitch, tot_pitch) ==
    IF WidthSettled(ext_w, list)
    THEN [ext_w |-> ext_w, y_next |-> y_next, iters |-> iters]
    ELSE LET w == NextWidth(ext_w, list)
             y_top == CeilTo(y_top_cur + w * mos_pitch + next_height, tot_pitch)
             y == y_top - next_height
         IN  LastBlockLoop((y - y_top_cur) \div mos_pitch, y, iters + 1, list,
                           y_top_cur, next_height, mos_pitch, tot_pitch)

\* steps 2.5 and 3 of _place_helper for idx + 1 == num_master - 1: where
\* the last block is put and the width of the extension below it
PlaceLast(in) ==
    LET y0 == CeilTo(in.y_tr_last_top, in.mos_pitch)
        min_ext_w == MinExtW(in.first, in.bot_ext_w, in.ext_w_list, y0,
                             in.y_top_cur, in.mos_pitch)
        y1 == in.y_top_cur + min_ext_w * in.mos_pitch
        y_next_min == IF y1 > y0 THEN y1 ELSE y0
        y_top == CeilTo(y_next_min + in.next_height, in.tot_pitch)
        y_next == y_top - in.next_height
    IN  LastBlockLoop((y_next - in.y_top_cur) \div in.mos_pitch, y_next, 0,
                      in.ext_w_list, in.y_top_cur, in.next_height,
                      in.mos_pitch, in.tot_pitch)

VARIABLES
    pl_in,          \* None, or what the last _place_helper call handed to step 3
    pl_out          \* None, or y_next and ext_w of the last block it placed

pvars == << pl_in, pl_out >>

InitPlace == pl_in = None /\ pl_out = None

\* a _place_helper call reaching the last block (one call is followed)
PlaceHelper(in) ==
    /\ pl_in = None
    /\ pl_in' = Some(in)
    /\ pl_out' = Some(PlaceLast(in))

\* ------------------------------------------------------- specifications
vars == << avars, ivars, lvars, dvars, pvars >>

Init == InitAnalog /\ InitIntv /\ InitLaygo /\ InitDigital /\ InitPlace

\* the other templates
NotAnalog == << ivars, lvars, dvars, pvars >>
NotIntv == << avars, lvars, dvars, pvars >>
NotLaygo == << avars, ivars, dvars, pvars >>
NotDigital == << avars, ivars, lvars, pvars >>
NotPlace == << avars, ivars, lvars, dvars >>

\* the num_col arguments: None or a number of columns
NumCols == {None} \cup { Some(c) : c \in (MaxCol - 1)..MaxCol }

NextAnalog ==
    \/ \E numn \in RowCounts, nump \in RowCounts, fg \in (MaxFg - 1)..MaxFg,
          ptap_w \in BOOLEAN, ntap_w \in BOOLEAN, guard_ring \in BOOLEAN :
            DrawBase(numn, nump, fg, ptap_w, ntap_w, guard_ring) /\ UNCHANGED NotAnalog
    \/ \E t \in MosTypes, r \in RowIdx, c \in 0..(MaxFg - 1),
          fg \in 1..MaxFg :
            c + fg <= MaxFg /\ DrawMosConn(t, r, c, fg) /\ UNCHANGED NotAnalog
    \/ \E t \in MosTypes, r \in RowIdx, c \in 0..(MaxFg - 1),
          fg \in 1..MaxFg, export_gate \in BOOLEAN :
            c + fg <= MaxFg /\ DrawMosDecap(t, r, c, fg, export_gate)
                /\ UNCHANGED NotAnalog
    \/ \E sub_type \in {"ptap", "ntap", "nch"}, inner \in BOOLEAN, both \in BOOLEAN :
            ConnectToSubstrate(sub_type, inner, both) /\ UNCHANGED NotAnalog
    \/ FillDummy /\ UNCHANGED NotAnalog

SpecAnalog == Init /\ [][NextAnalog]_vars

\* calls of add on one LaygoIntvSet
NextIntv ==
    \E lo \in 0..MaxCol, hi \in 1..(MaxCol + 1), endl \in EndInfos, endr \in EndInfos :
        lo < hi /\ IvAdd(<< lo, hi >>, endl, endr) /\ UNCHANGED NotIntv

SpecIntvSet == Init /\ [][NextIntv]_vars

\* a LaygoBase drawn by its subclass and finalized by the framework
NextLaygo ==
    \/ \E n \in LRowCounts, db \in BOOLEAN, num_col \in NumCols, end_sub \in BOOLEAN :
            SetRowTypes(n, db, num_col, end_sub) /\ UNCHANGED NotLaygo
    \/ \E num_col \in NumCols : SetLaygoSize(num_col) /\ UNCHANGED NotLaygo
    \/ \E row_idx \in LRowIdx, col_idx \in 0..MaxCol, num_col \in Widths,
          nx \in Copies, spx \in Pitches :
            /\ col_idx + spx * (nx - 1) + num_col <= MaxCol + 1
            /\ AddLaygoPrimitive(row_idx, col_idx, num_col, nx, spx)
            /\ UNCHANGED NotLaygo
    \/ FillSpace /\ UNCHANGED NotLaygo

SpecLaygo == Init /\ [][NextLaygo]_vars

\* a LaygoBase without primitives, and a DigitalBase initialized with the
\* row information of that LaygoBase
NextDigital ==
    \/ \E n \in LRowCounts, db \in BOOLEAN, num_col \in NumCols, end_sub \in BOOLEAN :
            SetRowTypes(n, db, num_col, end_sub) /\ UNCHANGED NotLaygo
    \/ \E num_col \in NumCols : SetLaygoSize(num_col) /\ UNCHANGED NotLaygo
    \/ FillSpace /\ UNCHANGED NotLaygo
    \/ Finalize /\ UNCHANGED NotLaygo
    \/ GetDigitalRowInfo /\ UNCHANGED NotLaygo
    \/ \E n \in LRowCounts, db \in BOOLEAN : Initialize(n, db) /\ UNCHANGED NotDigital
    \/ \E num_col \in NumCols : SetDigitalSize(num_col) /\ UNCHANGED NotDigital
    \/ DigitalFillSpace /\ UNCHANGED NotDigital

SpecDigital == Init /\ [][NextDigital]_vars

\* _place_helper calls whose blocks and pitches are multiples of mos_pitch
NextPlace ==
    \E mos_pitch \in MosPitches, ratio \in PitchRatios, height \in Heights,
       top \in 0..MaxY, y_tr_last_top \in 0..MaxY, first \in BOOLEAN,
       bot_ext_w \in BotExtWs, ext_w_list \in ExtWLists :
        /\ top % mos_pitch = 0
        /\ PlaceHelper([mos_pitch |-> mos_pitch, tot_pitch |-> ratio * mos_pitch,
                        next_height |-> height * mos_pitch, y_top_cur |-> top,
                        y_tr_last_top |-> y_tr_last_top, first |-> first,
                        bot_ext_w |-> bot_ext_w, ext_w_list |-> ext_w_list])
        /\ UNCHANGED NotPlace

SpecPlace == Init /\ [][NextPlace]_vars

\* ------------------------------------------------ AnalogBase: properties
ConnKinds == {"draw_mos_conn", "draw_mos_decap"}

\* the rows of a type, as row indices
Rows(t) == LET o == IF t = "pch" THEN p_intvs ELSE n_intvs
           IN  IF o = None THEN {} ELSE 0..(Len(Val(o)) - 1)

\* the instances of the given kinds on a row that cover finger f
Covering(kinds, t, r, f) ==
    { i \in insts : i.k \in kinds /\ i.t = t /\ i.r = r /\ i.lo <= f /\ f < i.hi }

\* fill_dummy has just returned on a base whose rows draw_base has drawn
Finished == a_op = "fill_dummy" /\ a_ret = "ok" /\ ab_placed

\* C1: no call of draw_mos_conn, draw_mos_decap, connect_to_substrate or
\* fill_dummy completes successfully before draw_base has been called.
C1_DrawBaseFirst ==
    (a_op \in {"draw_mos_conn", "draw_mos_decap", "connect_to_substrate", "fill_dummy"}
        /\ a_ret = "ok")
    => ab_called

\* C1 witness: fill_dummy was called before draw_base and raised.
C1_Witness == ~ab_called /\ a_op = "fill_dummy" /\ a_ret = "TypeError"

\* C2: draw_mos_conn raises ValueError whenever one of the fingers it asks
\* for is a finger of an instance an earlier successful draw_mos_conn or
\* draw_mos_decap drew on the same row.
C2_ConnOverlapRaises ==
    (a_op = "draw_mos_conn" /\ a_hit) => a_ret = "ValueError"

\* C2 witness: draw_mos_conn asked for fingers of a decap drawn earlier on
\* its row, and was refused.
C2_Witness ==
    /\ a_op = "draw_mos_conn" /\ a_hit /\ a_ret = "ValueError"
    /\ \E i \in insts : i.k = "draw_mos_decap"

\* C3: after fill_dummy returns, on every nch and pch row every finger in
\* [0, fg_tot) that no draw_mos_conn / draw_mos_decap instance covers is
\* covered by a dummy/separator instance.
C3_FillDummyCoversUnused ==
    Finished =>
        \A t \in MosTypes : \A r \in Rows(t) : \A f \in 0..(Val(fg_tot) - 1) :
            Covering(ConnKinds, t, r, f) = {} => Covering({"dummy"}, t, r, f) # {}

\* C3 witness: fill_dummy returned on a row that holds a transistor, a
\* decap and a dummy.
C3_Witness ==
    /\ Finished
    /\ \E i, j, d \in insts :
          /\ i.k = "draw_mos_conn" /\ j.k = "draw_mos_decap" /\ d.k = "dummy"
          /\ i.t = j.t /\ j.t = d.t /\ i.r = j.r /\ j.r = d.r

\* C4 (as claimed): in a finished AnalogBase every row starts and ends with
\* dummy transistors, and two transistors of a row always have separator
\* (dummy) fingers between them.
C4_DummyEndsAndSeparators ==
    Finished =>
        \A t \in MosTypes : \A r \in Rows(t) :
            /\ Covering({"dummy"}, t, r, 0) # {}
            /\ Covering({"dummy"}, t, r, Val(fg_tot) - 1) # {}
            /\ \A i, j \in insts :
                  (/\ i.k = "draw_mos_conn" /\ j.k = "draw_mos_conn"
                   /\ i.t = t /\ j.t = t /\ i.r = r /\ j.r = r
                   /\ i.hi <= j.lo)
                  => \E f \in i.hi..(j.lo - 1) : Covering({"dummy"}, t, r, f) # {}

\* ------------------------------------------------ LaygoIntvSet: properties
\* C5: LaygoIntvSet.add returns True exactly when the interval overlaps no
\* column used before the call, and then the interval is one of the used
\* intervals and the used columns are the old ones plus its own; it
\* returns False when it overlaps, and then the set is left as it was.
C5_AddReturnsWhetherAdded ==
    iv_last # None =>
        LET l == Val(iv_last)
            cols == l.intv[1]..(l.intv[2] - 1)
        IN  /\ l.ok <=> (Fingers(l.pre.intv) \cap cols = {})
            /\ l.ok => /\ l.intv \in IntvsOf(iv_set.intv)
                       /\ Fingers(iv_set.intv) = Fingers(l.pre.intv) \cup cols
            /\ ~l.ok => iv_set = l.pre

\* C5 witness: an add was refused on a set that holds two intervals added
\* before.
C5_Witness ==
    /\ iv_last # None
    /\ ~Val(iv_last).ok
    /\ Len(iv_set.intv) = 2

\* --------------------------------------------------- LaygoBase: properties
\* the rows, as indices into _used_list
LRows == IF used_list = None THEN {} ELSE 1..Len(Val(used_list))

\* every used interval of every row lies within [0, n)
InRange(n) ==
    \A r \in LRows :
        LET S == Val(used_list)[r].intv
        IN  \A i \in 1..Len(S) : 0 <= S[i][1] /\ S[i][2] <= n

\* in every row the used intervals are pairwise disjoint and their union
\* is exactly [0, n)
Tiled(n) ==
    \A r \in LRows :
        LET S == Val(used_list)[r].intv
        IN  /\ \A i, j \in 1..Len(S) : i # j => ~Overlaps(S[i], S[j])
            /\ Fingers(S) = 0..(n - 1)

\* fill_space has just been called on a LaygoBase whose rows are set and
\* whose size is set
AfterFillSpace == l_op = "fill_space" /\ rows_placed /\ laygo_size # None

C7_PrimitiveMarksOrRaises ==
    l_op = "add_laygo_primitive" =>
        /\ l_ret = "ok" => l_marked
        /\ l_hit => l_ret = "ValueError"

\* C7 witness: add_laygo_primitive was refused on a row where an earlier
\* call had placed two copies of a primitive.
C7_Witness ==
    /\ l_op = "add_laygo_primitive" /\ l_hit /\ l_ret = "ValueError"
    /\ \E p, q \in linsts : p.k = "prim" /\ q.k = "prim" /\ p.r = q.r /\ p.lo < q.lo

\* the space instances in the layout
Spaces == { i \in linsts : i.k = "space" }

\* C8: LaygoBase.fill_space raises ValueError when _laygo_size is None, and
\* DigitalBase.fill_space raises ValueError when _dig_size is None; in both
\* cases no space block and no extension has been drawn.
C8_FillSpaceNeedsSize ==
    /\ (l_op = "fill_space" /\ laygo_size = None) =>
            l_ret = "ValueError" /\ Spaces = {} /\ ext_edge_infos = None
    /\ (d_op = "fill_space" /\ dig_size = None) =>
            d_ret = "ValueError" /\ d_ext_edge_infos = None

\* C8 witness: fill_space was called on a LaygoBase whose rows are set and
\* on a DigitalBase, both without a size, and both calls raised.
C8_Witness ==
    /\ l_op = "fill_space" /\ laygo_size = None /\ rows_placed
    /\ l_ret = "ValueError"
    /\ d_op = "fill_space" /\ dig_size = None /\ d_ret = "ValueError"

\* C9 (as claimed): DigitalBase.initialize accepts the dictionary
\* get_digital_row_info returned as its row_info argument.
C9_RowInfoAccepted ==
    d_op = "initialize" => d_ret = "ok"

\* C10: get_digital_row_info raises ValueError exactly when the LaygoBase is
\* not finalized or draws boundaries.
C10_RowInfoNeedsFinalizedNoBoundaries ==
    l_op = "get_digital_row_info" =>
        (l_ret = "ValueError" <=> (~finalized \/ draw_boundaries))

\* C10 witness: get_digital_row_info raised ValueError on a finalized
\* LaygoBase that draws boundaries.
C10_Witness ==
    /\ l_op = "get_digital_row_info" /\ l_ret = "ValueError"
    /\ finalized /\ draw_boundaries /\ bound_box

\* ---------------------------------------------- _place_helper: properties
\* C11: _place_helper places the last block so that its top is a multiple
\* of tot_pitch and the extension between the block below and the last
\* block is exactly ext_w * mos_pitch high, where ext_w is one of the valid
\* extension widths or at least the largest of them.
C11_LastBlockOnPitchWithValidExt ==
    pl_out # None =>
        LET in == Val(pl_in)
            out == Val(pl_out)
            list == in.ext_w_list
        IN  /\ (out.y_next + in.next_height) % in.tot_pitch = 0
            /\ out.y_next - in.y_top_cur = out.ext_w * in.mos_pitch
            /\ \/ \E i \in 1..Len(list) : out.ext_w = list[i]
               \/ out.ext_w >= list[Len(list)]

\* C11 witness: the first placement on tot_pitch gave an invalid extension
\* width, and the loop ran twice before it ended on a width of the list.
C11_Witness ==
    /\ pl_out # None
    /\ Val(pl_out).iters >= 2
    /\ Val(pl_out).ext_w \in WidthsOf(Val(pl_in).ext_w_list)
=============================================================================
